---- MODULE Spec2Model ----
(***************************************************************************)
(* Shucks (src/shucks.py): the musical guessing game, as a state machine.  *)
(* The foreground thread runs main() -> __init__ -> play(); playback runs  *)
(* in background threads.  Both session variants are modelled:             *)
(*   "interactive" = InteractiveGameInput (letter-streaming),              *)
(*   "normal"      = NormalGameInput (line-buffered).                      *)
(* Titles and the input buffer are sequences of one-character strings.     *)
(***************************************************************************)
EXTENDS Integers, Sequences, FiniteSets, TLC

VARIABLES
    variant,          \* which class main() instantiates
    songs,            \* self.songs: title -> set of clip paths
    unguessed_files,  \* self.unguessed_files (distinct clips)
    current_file,     \* self.current_file, "None" when unset
    total_questions,  \* self.total_questions
    correct_answers,  \* self.correct_answers
    current_input,    \* self.current_input (interactive buffer)
    audio_thread,     \* self.audio_thread: a thread id, 0 for None
    stop_audio,       \* self.stop_audio: flag (normal) / Event (interactive)
    threads,          \* every playback thread ever started: id -> record
    pc,               \* position of the foreground thread
    ret,              \* where stop_audio_and_wait returns to
    user_input,       \* the line handle_user_interaction is handling (normal)
    key,              \* the character returned by get_char (interactive)
    out,              \* what the processing of the last input event printed
    report,           \* the game-over message printed, "None" before it
    initial_pool,     \* history: the pool built by the constructor
    typed             \* history: keys typed since the buffer was last empty

vars == <<variant, songs, unguessed_files, current_file,
          total_questions, correct_answers, current_input, audio_thread,
          stop_audio, threads, pc, ret, user_input, key, out, report,
          initial_pool, typed>>

-----------------------------------------------------------------------------
(* Bounds *)

\* number of thread slots; a slot is reused once its thread has terminated
MaxThreads == 2

\* get_unguessed_files: the pool size used in debug mode when none is given
DebugDefault == 5

ThreadIds == 1..MaxThreads

-----------------------------------------------------------------------------
(* Characters *)

LowerLetters == {"a", "b", "c", "d", "e", "g", "h", "k", "n", "o", "r", "s", "t", "v"}
UpperLetters == {"A", "B", "C", "S"}
Backspace == "DEL"
CtrlC == "ETX"
Digits == {"1"}
OtherChars == {"-"}

\* the keys get_char can deliver
Keys == {"a", "b", "c", "e", "g", "n", "o", "r", "s", "v", "B"}
            \cup {" ", Backspace, CtrlC} \cup Digits \cup OtherChars

IsAlpha(c) == c \in LowerLetters \cup UpperLetters
IsDigit(c) == c \in Digits

LowerChar(c) ==
    CASE c = "A" -> "a"
      [] c = "B" -> "b"
      [] c = "C" -> "c"
      [] c = "S" -> "s"
      [] OTHER -> c

Lower(s) == [i \in 1..Len(s) |-> LowerChar(s[i])]

StartsWith(s, p) == Len(p) <= Len(s) /\ SubSeq(s, 1, Len(p)) = p

\* code-point order of the characters used
CharOrder == <<" ", "-", "1", "A", "B", "C", "S", "a", "b", "c", "d", "e", "g",
               "h", "k", "n", "o", "r", "s", "t", "v">>
Ord(c) == CHOOSE i \in 1..Len(CharOrder) : CharOrder[i] = c

RECURSIVE StrLess(_, _)
StrLess(s, t) ==
    IF t = <<>> THEN FALSE
    ELSE IF s = <<>> THEN TRUE
    ELSE IF Ord(Head(s)) # Ord(Head(t)) THEN Ord(Head(s)) < Ord(Head(t))
    ELSE StrLess(Tail(s), Tail(t))

-----------------------------------------------------------------------------
(* Libraries: what get_songs finds in the audio directory *)

BeaverBreath == <<"B", "e", "a", "v", "e", "r", " ", "B", "r", "e", "a", "t", "h">>
BeaverCreek == <<"B", "e", "a", "v", "e", "r", " ", "C", "r", "e", "e", "k">>
SongA == <<"S", "o", "n", "g", " ", "A">>
SongB == <<"S", "o", "n", "g", " ", "B">>
Ab == <<"A", "b">>
Cd == <<"C", "d">>

Libraries ==
    { [t \in {BeaverBreath, BeaverCreek} |-> IF t = BeaverBreath THEN {"c1"} ELSE {"c2"}],
      [t \in {SongA, SongB} |-> IF t = SongA THEN {"c1"} ELSE {"c2"}],
      [t \in {Ab, Cd} |-> IF t = Ab THEN {"c1", "c2"} ELSE {"c3"}],
      [t \in {Ab} |-> {"c1", "c2"}] }

AllFiles == UNION {songs[t] : t \in DOMAIN songs}

\* sorted(list(self.songs.keys()))
RECURSIVE Sorted(_)
Sorted(T) ==
    IF T = {} THEN <<>>
    ELSE LET least == CHOOSE x \in T : \A y \in T \ {x} : StrLess(x, y)
         IN  <<least>> \o Sorted(T \ {least})

song_titles == Sorted(DOMAIN songs)

NoThread == [st |-> "unborn", clip |-> "None", sounding |-> FALSE]
Terminated == [st |-> "done", clip |-> "None", sounding |-> FALSE]


NoTitle == <<>>
Off == <<"#">>

-----------------------------------------------------------------------------
(* Pure helpers of the two classes *)

\* [title for title in self.song_titles if title.lower().startswith(guess.lower())]
TitleMatches(guess, t) == StartsWith(Lower(t), Lower(guess))

Matches(guess) ==
    LET Test(t) == TitleMatches(guess, t)
    IN  SelectSeq(song_titles, Test)

\* get_current_song_title: the title whose clips include current_file
get_current_song_title ==
    IF \E t \in DOMAIN songs : current_file \in songs[t]
    THEN CHOOSE t \in DOMAIN songs : current_file \in songs[t]
    ELSE NoTitle

\* a size test that lets a pool of no clips through
ValidNumFiles_AllowZero(n) == ~(n < 0 \/ n > Cardinality(AllFiles))

\* get_unguessed_files: the pool sizes it accepts
ValidNumFiles(n) == ~(n < 1 \/ n > Cardinality(AllFiles))

\* get_unguessed_files: num_files after the default is applied
EffectiveNumFiles(debug_mode, given, n) ==
    IF given THEN n
    ELSE IF ~debug_mode THEN Cardinality(AllFiles) ELSE DebugDefault

\* the total_questions each constructor leaves behind
InitialTotal(pool) ==
    IF variant = "interactive" THEN Cardinality(DOMAIN songs) ELSE Cardinality(pool)

\* a backspace branch that asks for the check on an empty buffer too
on_backspace_AlwaysChecks ==
    [input |-> SubSeq(current_input, 1, Len(current_input) - 1),
     check |-> TRUE, exit |-> FALSE, out |-> {}]

\* process_input, the backspace branch
on_backspace ==
    IF current_input # <<>>
    THEN [input |-> SubSeq(current_input, 1, Len(current_input) - 1),
          check |-> TRUE, exit |-> FALSE, out |-> {}]
    ELSE [input |-> current_input, check |-> FALSE, exit |-> FALSE, out |-> {}]

\* a digit branch that reports the bad input and keeps the buffer
on_digit_KeepsBuffer ==
    [input |-> current_input, check |-> FALSE, exit |-> FALSE, out |-> {"BadInput"}]

\* process_input, the digit branch
on_digit == [input |-> <<>>, check |-> FALSE, exit |-> FALSE, out |-> {"BadInput"}]

\* process_input: the buffer, whether the guess is to be checked, whether the
\* program exits, and what is printed
process_input(c) ==
    IF IsAlpha(c)
    THEN [input |-> Append(current_input, LowerChar(c)), check |-> TRUE,
          exit |-> FALSE, out |-> {}]
    ELSE IF c = Backspace
    THEN on_backspace
    ELSE IF c = CtrlC
    THEN [input |-> current_input, check |-> FALSE, exit |-> TRUE, out |-> {"Exiting"}]
    ELSE IF IsDigit(c)
    THEN on_digit
    ELSE [input |-> current_input, check |-> FALSE, exit |-> FALSE, out |-> {}]

\* a display_matches that reports a dead-end buffer and leaves it in place
display_matches_KeepsDeadEnd(inp) ==
    IF inp # <<>>
    THEN IF Matches(inp) # <<>>
         THEN [input |-> inp, out |-> {"Matching"}]
         ELSE [input |-> inp, out |-> {"Nope"}]
    ELSE [input |-> inp, out |-> {}]

\* display_matches: the buffer it leaves and what it prints
display_matches(inp) ==
    IF inp # <<>>
    THEN IF Matches(inp) # <<>>
         THEN [input |-> inp, out |-> {"Matching"}]
         ELSE [input |-> <<>>, out |-> {"Nope"}]
    ELSE [input |-> inp, out |-> {}]

\* a check_guess that accepts any unique match as the playing clip's title
check_guess_AnyUnique(guess) ==
    IF Len(Matches(guess)) = 1 THEN "correct" ELSE "none"

\* a correct branch that counts the guess without stopping the playback
OnCorrect_NoStop == [pc |-> "correct", ret |-> "none"]

\* interactive check_guess, the correct branch: stop_audio_and_wait is called
\* first, and the guess is counted when it returns
OnCorrect == [pc |-> "stop", ret |-> "correct"]

\* check_guess (interactive): which branch the guess takes
check_guess(guess) ==
    LET correct_title == get_current_song_title
        matches == Matches(guess)
    IN  IF Len(matches) = 1 /\ StartsWith(Lower(matches[1]), Lower(guess))
        THEN IF matches[1] = correct_title THEN "correct" ELSE "incorrect"
        ELSE "none"

\* a game-over message that does not look at the pool
GameOverMessage_Always(pool) == "Congratulations"

\* display_game_over_message
GameOverMessage(pool) == IF pool = {} THEN "Congratulations" ELSE "Thanks"

\* a remove that leaves the clip in the pool
Remove_Keep(pool, f) == pool

\* select_new_file / check_guess: list.remove
Remove(pool, f) == pool \ {f}

-----------------------------------------------------------------------------
(* Threads *)

Live(t) == threads[t].st \in {"started", "playing"}
LiveThreads == {t \in ThreadIds : Live(t)}
FreeIds == ThreadIds \ LiveThreads
Min(S) == CHOOSE x \in S : \A y \in S : x <= y

\* the slot of a new Thread object: never the one audio_thread still names,
\* unless no other is free
NewId ==
    IF FreeIds \ {audio_thread} # {} THEN Min(FreeIds \ {audio_thread}) ELSE Min(FreeIds)

\* a join that does not wait for the thread
JoinReady_NoWait == TRUE

\* audio_thread.join() returns: there is no thread, or it has terminated
JoinReady == IF audio_thread = 0 THEN TRUE ELSE ~Live(audio_thread)

\* the history of keys: extended while it spells a prefix of a lower-cased title
TypedAfter(c) ==
    LET base == IF current_input = <<>> THEN <<>> ELSE typed
        ext == Append(base, c)
    IN  IF base # Off /\ \E t \in DOMAIN songs : StartsWith(Lower(t), ext)
        THEN ext ELSE Off

-----------------------------------------------------------------------------
(* Construction: main() and the two __init__ *)

Init ==
    /\ variant \in {"interactive", "normal"}
    /\ songs \in Libraries
    /\ unguessed_files = {}
    /\ current_file = "None"
    /\ total_questions = 0
    /\ correct_answers = 0
    /\ current_input = <<>>
    /\ audio_thread = 0
    /\ stop_audio = FALSE
    /\ threads = [t \in ThreadIds |-> NoThread]
    /\ pc = "main"
    /\ ret = "none"
    /\ user_input = "none"
    /\ key = "none"
    /\ out = {}
    /\ report = "None"
    /\ initial_pool = {}
    /\ typed = <<>>

\* __init__ succeeds: random.sample(all_files, num_files)
Construct(debug_mode, given, n) ==
    /\ pc = "main"
    /\ ValidNumFiles(EffectiveNumFiles(debug_mode, given, n))
    /\ \E pool \in SUBSET AllFiles :
        /\ Cardinality(pool) = EffectiveNumFiles(debug_mode, given, n)
        /\ unguessed_files' = pool
        /\ initial_pool' = pool
        /\ total_questions' = InitialTotal(pool)
    /\ current_file' = "None"
    /\ correct_answers' = 0
    /\ current_input' = <<>>
    /\ audio_thread' = 0
    /\ stop_audio' = FALSE
    /\ pc' = "loop"
    /\ UNCHANGED <<key, variant, songs, threads, ret, user_input, out,
                   report, typed>>

\* __init__ raises ValueError; main prints the error and returns
ConstructError(debug_mode, given, n) ==
    /\ pc = "main"
    /\ ~ValidNumFiles(EffectiveNumFiles(debug_mode, given, n))
    /\ pc' = "error"
    /\ out' = {"Error"}
    /\ UNCHANGED <<key, variant, songs, unguessed_files, current_file,
                   total_questions, correct_answers, current_input, audio_thread,
                   stop_audio, threads, ret, user_input, report, initial_pool,
                   typed>>

-----------------------------------------------------------------------------
(* Starting a playback thread *)

\* a play_file that creates no thread
StartOnce_NoThread ==
    /\ stop_audio' = FALSE
    /\ UNCHANGED <<threads, audio_thread>>

\* InteractiveGameInput.play_file, after the stop: the thread gets no clip, it
\* reads self.current_file itself
StartOnce ==
    /\ FreeIds # {}
    /\ stop_audio' = FALSE
    /\ threads' = [threads EXCEPT ![NewId] =
                      [st |-> "started", clip |-> "None", sounding |-> FALSE]]
    /\ audio_thread' = NewId

\* ShucksGame.play_audio_in_thread: the Sound is loaded by the caller
play_audio_in_thread ==
    IF current_file' # "None"
    THEN /\ FreeIds # {}
         /\ stop_audio' = FALSE
         /\ threads' = [threads EXCEPT ![NewId] =
                           [st |-> "started", clip |-> current_file', sounding |-> FALSE]]
         /\ audio_thread' = NewId
    ELSE UNCHANGED <<stop_audio, threads, audio_thread>>

-----------------------------------------------------------------------------
(* InteractiveGameInput: the foreground thread *)

\* a play() whose select_new_file draws from the whole initial pool
ILoop_Reoffers ==
    /\ variant = "interactive"
    /\ pc = "loop"
    /\ IF unguessed_files = {}
       THEN /\ pc' = "gameover"
            /\ UNCHANGED <<current_file, unguessed_files, ret, typed>>
       ELSE /\ \E f \in initial_pool :
                /\ current_file' = f
                /\ unguessed_files' = Remove(unguessed_files, f)
            /\ pc' = "stop"
            /\ ret' = "play_file"
            /\ typed' = <<>>
    /\ UNCHANGED <<key, variant, songs, total_questions, correct_answers,
                   current_input, audio_thread, stop_audio, threads, user_input,
                   out, report, initial_pool>>

\* play(): the while test, and with clips left select_new_file, then play_file
\* is entered
ILoop ==
    /\ variant = "interactive"
    /\ pc = "loop"
    /\ IF unguessed_files = {}
       THEN /\ pc' = "gameover"
            /\ UNCHANGED <<current_file, unguessed_files, ret, typed>>
       ELSE /\ \E f \in unguessed_files :
                /\ current_file' = f
                /\ unguessed_files' = Remove(unguessed_files, f)
            /\ pc' = "stop"
            /\ ret' = "play_file"
            /\ typed' = <<>>
    /\ UNCHANGED <<key, variant, songs, total_questions, correct_answers,
                   current_input, audio_thread, stop_audio, threads, user_input,
                   out, report, initial_pool>>

\* stop_audio_and_wait: self.stop_audio.set()
StopSet ==
    /\ pc = "stop"
    /\ stop_audio' = TRUE
    /\ pc' = "join"
    /\ UNCHANGED <<key, variant, songs, unguessed_files, current_file,
                   total_questions, correct_answers, current_input, audio_thread,
                   threads, ret, user_input, out, report, initial_pool, typed>>

\* a stop_audio_and_wait that returns without joining the thread
StopJoin_NoJoin ==
    /\ pc = "join"
    /\ stop_audio' = FALSE
    /\ pc' = ret
    /\ UNCHANGED <<key, variant, songs, unguessed_files, current_file,
                   total_questions, correct_answers, current_input, audio_thread,
                   threads, ret, user_input, out, report, initial_pool, typed>>

\* a stop_audio_and_wait that returns with the signal still set
StopJoin_NoClear ==
    /\ pc = "join"
    /\ JoinReady
    /\ pc' = ret
    /\ UNCHANGED <<key, variant, songs, unguessed_files, current_file,
                   total_questions, correct_answers, current_input, audio_thread,
                   stop_audio, threads, ret, user_input, out, report,
                   initial_pool, typed>>

\* stop_audio_and_wait: the join returns, self.stop_audio.clear()
StopJoin ==
    /\ pc = "join"
    /\ JoinReady
    /\ stop_audio' = FALSE
    /\ pc' = ret
    /\ UNCHANGED <<key, variant, songs, unguessed_files, current_file,
                   total_questions, correct_answers, current_input, audio_thread,
                   threads, ret, user_input, out, report, initial_pool, typed>>

\* play_file, after stop_audio_and_wait: clear, create and start the thread
IPlayFile ==
    /\ pc = "play_file"
    /\ StartOnce
    /\ pc' = "read"
    /\ UNCHANGED <<key, variant, songs, unguessed_files, current_file,
                   total_questions, correct_answers, current_input, ret,
                   user_input, out, report, initial_pool, typed>>

\* play(): get_char returned a space: play_file is entered
IReplay ==
    /\ variant = "interactive"
    /\ pc = "read"
    /\ pc' = "stop"
    /\ ret' = "play_file"
    /\ out' = {}
    /\ key' = " "
    /\ typed' = TypedAfter(" ")
    /\ UNCHANGED <<variant, songs, unguessed_files, current_file,
                   total_questions, correct_answers, current_input, audio_thread,
                   stop_audio, threads, user_input, report, initial_pool>>

\* play(): get_char returned c: process_input, then display_matches and
\* check_guess when process_input asks for it
IKey(c) ==
    /\ variant = "interactive"
    /\ pc = "read"
    /\ c # " "
    /\ key' = c
    /\ typed' = TypedAfter(c)
    /\ LET p == process_input(c)
       IN  IF p.exit
           THEN /\ out' = p.out
                /\ pc' = "stop"
                /\ ret' = "exit"
                /\ UNCHANGED current_input
           ELSE IF ~p.check
           THEN /\ out' = p.out
                /\ current_input' = p.input
                /\ UNCHANGED <<pc, ret>>
           ELSE LET d == display_matches(p.input)
                    g == check_guess(d.input)
                IN  IF g = "correct"
                    THEN /\ out' = p.out \cup d.out \cup {"Resolved"}
                         /\ current_input' = d.input
                         /\ pc' = OnCorrect.pc
                         /\ ret' = OnCorrect.ret
                    ELSE IF g = "incorrect"
                    THEN /\ out' = p.out \cup d.out \cup {"Resolved", "Incorrect"}
                         /\ current_input' = <<>>
                         /\ UNCHANGED <<pc, ret>>
                    ELSE /\ out' = p.out \cup d.out
                         /\ current_input' = d.input
                         /\ UNCHANGED <<pc, ret>>
    /\ UNCHANGED <<variant, songs, unguessed_files, current_file,
                   total_questions, correct_answers, audio_thread, stop_audio,
                   threads, user_input, report, initial_pool>>

\* check_guess, after stop_audio_and_wait: the guess is counted, and play()
\* leaves the inner loop
ICorrect ==
    /\ pc = "correct"
    /\ out' = out \cup {"Correct"}
    /\ correct_answers' = correct_answers + 1
    /\ current_input' = <<>>
    /\ pc' = "loop"
    /\ UNCHANGED <<key, variant, songs, unguessed_files, current_file,
                   total_questions, audio_thread, stop_audio, threads, ret,
                   user_input, report, initial_pool, typed>>

\* process_input, after stop_audio_and_wait: sys.exit(0)
IExit ==
    /\ pc = "exit"
    /\ pc' = "exited"
    /\ UNCHANGED <<key, variant, songs, unguessed_files, current_file,
                   total_questions, correct_answers, current_input, audio_thread,
                   stop_audio, threads, ret, user_input, out, report,
                   initial_pool, typed>>

\* display_game_over_message, then play() and main() return
GameOver ==
    /\ pc = "gameover"
    /\ report' = GameOverMessage(unguessed_files)
    /\ pc' = "ended"
    /\ UNCHANGED <<key, variant, songs, unguessed_files, current_file,
                   total_questions, correct_answers, current_input, audio_thread,
                   stop_audio, threads, ret, user_input, out, initial_pool, typed>>

-----------------------------------------------------------------------------
(* InteractiveGameInput: the playback thread, _play_audio_once *)

\* pygame.mixer.Sound(self.current_file); sound.play()
PlayOnceBegin(t) ==
    /\ variant = "interactive"
    /\ threads[t].st = "started"
    /\ threads' = [threads EXCEPT ![t] =
                      [st |-> "playing", clip |-> current_file, sounding |-> TRUE]]
    /\ UNCHANGED <<key, variant, songs, unguessed_files, current_file,
                   total_questions, correct_answers, current_input, audio_thread,
                   stop_audio, pc, ret, user_input, out, report, initial_pool,
                   typed>>

\* pygame.time.wait(length) returns: the whole length of the clip has gone by
WaitElapses(t) ==
    /\ variant = "interactive"
    /\ threads[t].st = "playing"
    /\ threads[t].sounding
    /\ threads' = [threads EXCEPT ![t].sounding = FALSE]
    /\ UNCHANGED <<key, variant, songs, unguessed_files, current_file,
                   total_questions, correct_answers, current_input, audio_thread,
                   stop_audio, pc, ret, user_input, out, report, initial_pool,
                   typed>>

\* after the wait: sound.stop(); the thread terminates
PlayOnceEnd(t) ==
    /\ variant = "interactive"
    /\ threads[t].st = "playing"
    /\ ~threads[t].sounding
    /\ threads' = [threads EXCEPT ![t] = Terminated]
    /\ UNCHANGED <<key, variant, songs, unguessed_files, current_file,
                   total_questions, correct_answers, current_input, audio_thread,
                   stop_audio, pc, ret, user_input, out, report, initial_pool,
                   typed>>

-----------------------------------------------------------------------------
(* NormalGameInput: the foreground thread *)

\* the lines get_user_input accepts: an action, or a number of the song list
Lines == {"q", "s", "a", "r", "1", "2"}
IsDigitLine(u) == u \in {"1", "2"}
IntOf(u) == IF u = "1" THEN 1 ELSE 2
ValidLine(u) == u \in {"q", "s", "a", "r"} \/ (IsDigitLine(u) /\ 1 <= IntOf(u) /\ IntOf(u) <= Len(song_titles))

\* NormalGameInput.check_guess: is the guessed title the current clip's
NormalGuessCorrect(guess_index) == current_file \in songs[song_titles[guess_index + 1]]

\* ShucksGame.play(): the while test, and with clips left select_and_play_file
NLoop ==
    /\ variant = "normal"
    /\ pc = "loop"
    /\ IF unguessed_files = {}
       THEN /\ pc' = "gameover"
            /\ UNCHANGED <<current_file, stop_audio, threads, audio_thread>>
       ELSE /\ IF current_file = "None"
               THEN \E f \in unguessed_files : current_file' = f
               ELSE UNCHANGED current_file
            /\ play_audio_in_thread
            /\ pc' = "input"
    /\ UNCHANGED <<key, variant, songs, unguessed_files, total_questions,
                   correct_answers, current_input, ret, user_input, out, report,
                   initial_pool, typed>>

\* handle_user_interaction: get_user_input returned u; self.stop_audio = True
NInput(u) ==
    /\ variant = "normal"
    /\ pc = "input"
    /\ ValidLine(u)
    /\ user_input' = u
    /\ stop_audio' = TRUE
    /\ out' = {}
    /\ pc' = "njoin"
    /\ UNCHANGED <<key, variant, songs, unguessed_files, current_file,
                   total_questions, correct_answers, current_input, audio_thread,
                   threads, ret, report, initial_pool, typed>>

\* handle_user_interaction: self.audio_thread.join() returns
NJoin ==
    /\ pc = "njoin"
    /\ JoinReady
    /\ pc' = "handle"
    /\ UNCHANGED <<key, variant, songs, unguessed_files, current_file,
                   total_questions, correct_answers, current_input, audio_thread,
                   stop_audio, threads, ret, user_input, out, report,
                   initial_pool, typed>>

\* handle_user_interaction, 'r': play_file and back to the loop
NReplay ==
    /\ pc = "handle"
    /\ user_input = "r"
    /\ UNCHANGED current_file
    /\ play_audio_in_thread
    /\ pc' = "loop"
    /\ user_input' = "none"
    /\ UNCHANGED <<key, variant, songs, unguessed_files, total_questions,
                   correct_answers, current_input, ret, out, report,
                   initial_pool, typed>>

\* handle_guess, 'q': play() breaks out of the loop
NQuit ==
    /\ pc = "handle"
    /\ user_input = "q"
    /\ pc' = "gameover"
    /\ UNCHANGED <<key, variant, songs, unguessed_files, current_file,
                   total_questions, correct_answers, current_input, audio_thread,
                   stop_audio, threads, ret, user_input, out, report,
                   initial_pool, typed>>

\* handle_guess, 's', and 'a' with show_answer: another clip is drawn
NSkip ==
    /\ pc = "handle"
    /\ user_input \in {"s", "a"}
    /\ \E f \in unguessed_files : current_file' = f
    /\ out' = IF user_input = "a" THEN {"Answer"} ELSE {}
    /\ pc' = "loop"
    /\ user_input' = "none"
    /\ UNCHANGED <<key, variant, songs, unguessed_files, total_questions,
                   correct_answers, current_input, audio_thread, stop_audio,
                   threads, ret, report, initial_pool, typed>>

\* handle_guess, a number: NormalGameInput.check_guess
NGuess ==
    /\ pc = "handle"
    /\ IsDigitLine(user_input)
    /\ IF NormalGuessCorrect(IntOf(user_input) - 1)
       THEN /\ out' = {"Correct"}
            /\ unguessed_files' = Remove(unguessed_files, current_file)
            /\ IF unguessed_files' # {}
               THEN \E f \in unguessed_files' : current_file' = f
               ELSE current_file' = "None"
            /\ correct_answers' = correct_answers + 1
       ELSE /\ out' = {"Incorrect"}
            /\ UNCHANGED <<unguessed_files, current_file, correct_answers>>
    /\ pc' = "loop"
    /\ user_input' = "none"
    /\ UNCHANGED <<key, variant, songs, total_questions, current_input,
                   audio_thread, stop_audio, threads, ret, report,
                   initial_pool, typed>>

-----------------------------------------------------------------------------
(* NormalGameInput: the playback thread, ShucksGame.play_audio *)

\* pygame.mixer.get_busy(): some sound is still being mixed
Busy == \E t \in ThreadIds : threads[t].sounding

\* sound.play()
PlayAudioBegin(t) ==
    /\ variant = "normal"
    /\ threads[t].st = "started"
    /\ threads' = [threads EXCEPT ![t].st = "playing", ![t].sounding = TRUE]
    /\ UNCHANGED <<key, variant, songs, unguessed_files, current_file,
                   total_questions, correct_answers, current_input, audio_thread,
                   stop_audio, pc, ret, user_input, out, report, initial_pool,
                   typed>>

\* the mixer reaches the end of the thread's sound
SoundEnds(t) ==
    /\ variant = "normal"
    /\ threads[t].st = "playing"
    /\ threads[t].sounding
    /\ threads' = [threads EXCEPT ![t].sounding = FALSE]
    /\ UNCHANGED <<key, variant, songs, unguessed_files, current_file,
                   total_questions, correct_answers, current_input, audio_thread,
                   stop_audio, pc, ret, user_input, out, report, initial_pool,
                   typed>>

\* the polling loop ends; sound.stop(); the thread terminates
PlayAudioEnd(t) ==
    /\ variant = "normal"
    /\ threads[t].st = "playing"
    /\ ~(Busy /\ ~stop_audio)
    /\ threads' = [threads EXCEPT ![t] = Terminated]
    /\ UNCHANGED <<key, variant, songs, unguessed_files, current_file,
                   total_questions, correct_answers, current_input, audio_thread,
                   stop_audio, pc, ret, user_input, out, report, initial_pool,
                   typed>>

-----------------------------------------------------------------------------
(* The program *)

\* the largest pool size a caller asks for
MaxNumFiles == 4

\* the pool sizes a caller may ask for
NumFiles == -1..MaxNumFiles

Next ==
    \/ \E debug_mode \in BOOLEAN, given \in BOOLEAN, n \in NumFiles : Construct(debug_mode, given, n)
    \/ \E debug_mode \in BOOLEAN, given \in BOOLEAN, n \in NumFiles : ConstructError(debug_mode, given, n)
    \/ ILoop
    \/ StopSet
    \/ StopJoin
    \/ IPlayFile
    \/ IReplay
    \/ \E c \in Keys : IKey(c)
    \/ ICorrect
    \/ IExit
    \/ GameOver
    \/ \E t \in ThreadIds : PlayOnceBegin(t)
    \/ \E t \in ThreadIds : WaitElapses(t)
    \/ \E t \in ThreadIds : PlayOnceEnd(t)
    \/ NLoop
    \/ \E u \in Lines : NInput(u)
    \/ NJoin
    \/ NReplay
    \/ NQuit
    \/ NSkip
    \/ NGuess
    \/ \E t \in ThreadIds : PlayAudioBegin(t)
    \/ \E t \in ThreadIds : SoundEnds(t)
    \/ \E t \in ThreadIds : PlayAudioEnd(t)

Spec == Init /\ [][Next]_vars

-----------------------------------------------------------------------------
(* Properties *)

Interactive == variant = "interactive"
Normal == variant = "normal"
ProgramOver == pc \in {"error", "exited", "ended"}

\* C1: in the letter-streaming session at most one playback thread is live in
\* every reachable state: play_file never starts a thread while one it started
\* before has not terminated.
C1_AtMostOnePlayback == Interactive => Cardinality(LiveThreads) <= 1

\* a replay has started a second thread, after the first one terminated
C1_Witness ==
    /\ Interactive
    /\ pc = "read"
    /\ audio_thread = 2
    /\ Live(2)
    /\ threads[1].st = "done"

\* C2: stop-before-mutate in the letter-streaming session: a step that changes
\* current_file or unguessed_files, or that ends the program, is taken only
\* when no playback thread is live; once a thread exists, that is after a stop
\* which raised and cleared the signal and joined the thread.
C2_StopBeforeMutate ==
    [][(/\ Interactive
        /\ \/ current_file' # current_file
           \/ unguessed_files' # unguessed_files
           \/ (ProgramOver' /\ ~ProgramOver))
       => (/\ LiveThreads = {}
           /\ ~stop_audio
           /\ audio_thread # 0 => threads[audio_thread].st = "done")]_vars

\* the second clip has just been selected, after the first clip's thread was
\* stopped and joined
C2_Witness ==
    /\ Interactive
    /\ pc = "stop"
    /\ ret = "play_file"
    /\ correct_answers = 1
    /\ audio_thread # 0
    /\ LiveThreads = {}
    /\ Cardinality(unguessed_files) = Cardinality(initial_pool) - 2

\* a step that completes a correct resolution: "Correct" is printed
CorrectStep == "Correct" \in out' /\ "Correct" \notin out

\* C3: in both variants correct_answers counts the correct resolutions (it
\* starts at 0 and changes only by a correct resolution adding one), and right
\* after the N-th one the pool holds K - N clips, K the initial pool size,
\* N <= K.
C3_PoolAfterCorrect ==
    [][/\ CorrectStep =>
            /\ correct_answers' = correct_answers + 1
            /\ Cardinality(unguessed_files') = Cardinality(initial_pool) - correct_answers'
            /\ correct_answers' <= Cardinality(initial_pool)
       /\ correct_answers' # correct_answers => CorrectStep
       /\ pc = "main" => correct_answers = 0 /\ correct_answers' = 0]_vars

\* the second of three clips has just been resolved correctly
C3_Witness ==
    /\ Interactive
    /\ "Correct" \in out
    /\ pc = "loop"
    /\ correct_answers = 2
    /\ Cardinality(initial_pool) = 3
    /\ Cardinality(unguessed_files) = 1

\* C4: after every completed correct resolution total_questions equals
\* correct_answers plus the size of the pool, total_questions being the size of
\* the pool the constructor built.
C4_TotalIsCorrectPlusPool ==
    /\ pc \notin {"main", "error"} => total_questions = Cardinality(initial_pool)
    /\ ("Correct" \in out /\ pc = "loop") =>
            total_questions = correct_answers + Cardinality(unguessed_files)

\* the titles whose lower-cased form starts with the keys typed
Candidates(keys) == {t \in DOMAIN songs : StartsWith(Lower(t), keys)}

\* the titles display_matches and check_guess find for the buffer
BufferMatches == {Matches(current_input)[i] : i \in 1..Len(Matches(current_input))}

\* C5: the candidates are the titles whose lower-cased form starts with the
\* keys typed, spaces included: with titles "Beaver Breath" and "Beaver Creek",
\* after "beaver " both titles match and the buffer is retained, after
\* "beaver b" only "Beaver Breath" matches and the verdict is Resolved.
C5_PrefixWithSpaces ==
    (Interactive /\ DOMAIN songs = {BeaverBreath, BeaverCreek}) =>
        /\ typed = <<"b", "e", "a", "v", "e", "r", " ">> =>
                /\ current_input # <<>>
                /\ BufferMatches = {BeaverBreath, BeaverCreek}
                /\ BufferMatches = Candidates(typed)
        /\ typed = <<"b", "e", "a", "v", "e", "r", " ", "b">> =>
                /\ Candidates(typed) = {BeaverBreath}
                /\ "Resolved" \in out
                /\ "Nope" \notin out

\* C6: in the letter-streaming session, once the player has typed the whole
\* lower-cased title of the playing clip, spaces included, the clip has been
\* resolved as correct (so that typing every clip's title ends in Done); with
\* {"Song A": [c1], "Song B": [c2]}, "song a" resolves c1 and "song b" c2.
C6_TypingTitleResolves ==
    (Interactive /\ current_file # "None" /\ typed = Lower(get_current_song_title)) =>
        /\ "Resolved" \in out
        /\ "Incorrect" \notin out
        /\ pc \in {"stop", "join", "correct", "loop", "gameover", "ended"}

\* a quit request has been read and the program has not yet gone past it
QuitRequested ==
    \/ Interactive /\ "Exiting" \in out
    \/ Normal /\ user_input = "q" /\ pc \in {"njoin", "handle", "gameover", "ended"}

\* the positions between a quit request and the end of the program
QuitPath == {"stop", "join", "exit", "exited", "njoin", "handle", "gameover", "ended"}

\* C7: the game-over step reports success only with an empty pool, directly
\* after a correct resolution, with correct_answers equal to the initial pool
\* size; a session ended by a quit request never reports success.
C7_DoneOnlyAfterCorrect ==
    /\ report = "Congratulations" =>
            /\ pc = "ended"
            /\ unguessed_files = {}
            /\ "Correct" \in out
            /\ correct_answers = Cardinality(initial_pool)
    /\ QuitRequested => report # "Congratulations"
    /\ pc = "exited" => QuitRequested /\ report = "None"

\* a session of two clips has ended in Done
C7_Witness ==
    /\ pc = "ended"
    /\ report = "Congratulations"
    /\ Cardinality(initial_pool) = 2
    /\ correct_answers = 2

\* C8: a quit request read in any state in which the session waits for input
\* moves the session directly to Terminated, with no playback thread live when
\* it arrives, correct_answers unchanged and nothing removed from the pool.
C8_QuitTerminates ==
    [][QuitRequested' =>
        /\ pc' \in QuitPath
        /\ UNCHANGED <<correct_answers, unguessed_files, current_file>>
        /\ pc' \in {"exited", "ended"} =>
                /\ LiveThreads' = {}
                /\ report' \in {"None", "Thanks"}]_vars

\* C9: in the letter-streaming session a replay request leaves the buffer,
\* current_file, the pool and correct_answers as they are on every step up to
\* the start of the new thread; play_file starts that thread when no playback
\* is live, so that afterwards exactly one is live, and what a live thread
\* plays is current_file.
C9_Replay ==
    [][/\ (IReplay \/ (Interactive /\ ret = "play_file" /\ pc \in {"stop", "join", "play_file"}))
            => UNCHANGED <<current_input, current_file, unguessed_files, correct_answers>>
       /\ IReplay => pc' = "stop" /\ ret' = "play_file"
       /\ (Interactive /\ pc = "play_file") =>
            /\ LiveThreads = {}
            /\ pc' = "play_file" \/ (pc' = "read" /\ LiveThreads' = {audio_thread'})
       /\ Interactive =>
            \A t \in ThreadIds : threads'[t].st = "playing" => threads'[t].clip = current_file'
      ]_vars

\* the clip is sounding again after a replay asked for with "song" in the buffer
C9_Witness ==
    /\ Interactive
    /\ pc = "read"
    /\ typed = <<"s", "o", "n", "g", " ">>
    /\ current_input = <<"s", "o", "n", "g">>
    /\ LiveThreads = {audio_thread}
    /\ threads[audio_thread].st = "playing"
    /\ threads[audio_thread].clip = current_file
    /\ \E t \in ThreadIds : threads[t].st = "done"

\* the buffer resolves to a unique title that is not the playing clip's
UniqueWrong(buf) ==
    /\ Cardinality(Candidates(buf)) = 1
    /\ Candidates(buf) # {get_current_song_title}

\* C10: in the letter-streaming session, when the buffer left by a key
\* resolves to a unique title that is not the playing clip's, playback is
\* neither stopped nor restarted, the buffer is cleared, and current_file, the
\* pool and correct_answers are unchanged: the session goes on reading keys
\* for the same clip.
C10_IncorrectKeepsPlaying ==
    [][(/\ Interactive
        /\ pc = "read"
        /\ threads' = threads
        /\ key' # " "
        /\ process_input(key').check
        /\ UniqueWrong(display_matches(process_input(key').input).input))
            => /\ UNCHANGED <<threads, audio_thread, stop_audio, current_file,
                              unguessed_files, correct_answers>>
               /\ current_input' = <<>>
               /\ pc' = "read"
               /\ "Incorrect" \in out']_vars

\* a wrong unique guess has been rejected while the clip is sounding
C10_Witness ==
    /\ Interactive
    /\ pc = "read"
    /\ "Incorrect" \in out
    /\ current_input = <<>>
    /\ LiveThreads = {audio_thread}
    /\ threads[audio_thread].st = "playing"

\* C11: a requested pool size that is zero, negative or larger than the
\* library is rejected with an error before the session starts: no pool is
\* built, no playback thread is started and nothing follows the error; every
\* size from 1 to the library size can be requested and yields a pool of
\* exactly that many distinct clips of the library.
C11_PoolSizeChecked ==
    [][/\ pc = "main" =>
            \A n \in NumFiles, d \in BOOLEAN :
                /\ (Construct(d, TRUE, n) \/ ConstructError(d, TRUE, n)) =>
                        IF n < 1 \/ n > Cardinality(AllFiles)
                        THEN /\ pc' = "error"
                             /\ "Error" \in out'
                             /\ unguessed_files' = {}
                             /\ LiveThreads' = {}
                             /\ audio_thread' = 0
                        ELSE /\ pc' = "loop"
                             /\ unguessed_files' \subseteq AllFiles
                             /\ Cardinality(unguessed_files') = n
                /\ (1 <= n /\ n <= Cardinality(AllFiles)) => ENABLED Construct(d, TRUE, n)
       /\ pc # "error"]_vars

\* the constructor has rejected the requested pool size
C11_Witness ==
    /\ pc = "error"
    /\ "Error" \in out
    /\ unguessed_files = {}
    /\ Cardinality(AllFiles) = 3

\* C12: stop_audio_and_wait is idempotent: called with no playback live (as
\* the second of two calls in a row is), it does not block, and it returns with
\* current_file, the buffer, the pool, correct_answers, the threads and the
\* cleared signal exactly as they were when it was called.
C12_StopIdempotent ==
    [][/\ (pc = "stop" /\ LiveThreads = {}) =>
            /\ ~stop_audio
            /\ pc' = "join"
       /\ (pc = "join" /\ LiveThreads = {}) =>
            /\ ENABLED StopJoin
            /\ pc' = ret
            /\ ~stop_audio'
       /\ pc \in {"stop", "join"} =>
            /\ UNCHANGED <<current_file, current_input, unguessed_files,
                           correct_answers, audio_thread>>
            /\ LiveThreads = {} => threads' = threads]_vars

\* play_file's stop has returned right after the stop of a correct resolution
C12_Witness ==
    /\ Interactive
    /\ pc = "play_file"
    /\ "Correct" \in out
    /\ audio_thread # 0
    /\ LiveThreads = {}
    /\ ~stop_audio

\* a step of the foreground loop that reads a key other than the space
KeyStep == Interactive /\ pc = "read" /\ threads' = threads /\ key' # " "

\* C13: backspace on an empty buffer changes nothing: the buffer stays empty,
\* nothing is printed (no verdict, no resolution), and current_file, the pool,
\* correct_answers and the playback state are as before; backspace on a
\* non-empty buffer removes exactly its last character.
C13_Backspace ==
    [][(KeyStep /\ key' = Backspace) =>
        IF current_input = <<>>
        THEN /\ current_input' = <<>>
             /\ out' = {}
             /\ pc' = "read"
             /\ UNCHANGED <<current_file, unguessed_files, correct_answers,
                            threads, audio_thread, stop_audio>>
        ELSE current_input' = SubSeq(current_input, 1, Len(current_input) - 1)]_vars

\* a backspace was typed on the empty buffer of a single-title session, whose
\* buffer is empty whenever a key is read
C13_Witness ==
    /\ Interactive
    /\ Cardinality(DOMAIN songs) = 1
    /\ pc = "read"
    /\ key = Backspace
    /\ current_input = <<>>
    /\ out = {}

\* C14: in the letter-streaming session a digit, typed with any buffer
\* content, empties the buffer and produces no resolution: only the bad input
\* is reported, and current_file, the pool, correct_answers and the playback
\* state are unchanged; the letter typed next starts a fresh prefix.
C14_DigitClears ==
    [][/\ (KeyStep /\ IsDigit(key')) =>
            /\ current_input' = <<>>
            /\ out' = {"BadInput"}
            /\ pc' = "read"
            /\ UNCHANGED <<current_file, unguessed_files, correct_answers,
                           threads, audio_thread, stop_audio>>
       /\ (KeyStep /\ IsDigit(key) /\ IsAlpha(key')) =>
            /\ current_input = <<>>
            /\ current_input' \in {<<>>, <<LowerChar(key')>>}]_vars

\* a digit has been rejected while the clip is sounding
C14_Witness ==
    /\ Interactive
    /\ pc = "read"
    /\ key = "1"
    /\ out = {"BadInput"}
    /\ current_input = <<>>
    /\ LiveThreads = {audio_thread}

\* the buffer process_input leaves for the key just read, and the buffer
\* display_matches hands on to check_guess
AfterProcess == process_input(key').input
AfterDisplay == display_matches(AfterProcess).input

\* C15: an empty buffer produces no verdict, in every library: display_matches
\* reports no mismatch for it, and check_guess neither resolves it nor performs
\* a correct or incorrect resolution, also when the buffer became empty by a
\* backspace or by the clear after a zero-candidate input.
C15_EmptyBufferNoVerdict ==
    [][KeyStep =>
        /\ (process_input(key').check /\ AfterProcess = <<>>) => "Nope" \notin out'
        /\ (process_input(key').check /\ AfterDisplay = <<>>) =>
                /\ out' \cap {"Resolved", "Correct", "Incorrect"} = {}
                /\ pc' = "read"
        /\ (~process_input(key').check /\ AfterProcess = <<>>) =>
                out' \cap {"Nope", "Resolved", "Correct", "Incorrect"} = {}]_vars

\* C16: a letter that leaves the buffer non-empty with no matching title is
\* reported as a mismatch and the buffer is cleared, while current_file, the
\* pool and correct_answers stay as they are and playback is not stopped (the
\* session goes on reading keys); a buffer matching several titles is retained.
C16_NoMatchClears ==
    [][(KeyStep /\ IsAlpha(key')) =>
        /\ (AfterProcess # <<>> /\ Len(Matches(AfterProcess)) = 0) =>
                /\ "Nope" \in out'
                /\ current_input' = <<>>
                /\ pc' = "read"
                /\ UNCHANGED <<current_file, unguessed_files, correct_answers,
                               threads, audio_thread, stop_audio>>
        /\ Len(Matches(AfterProcess)) > 1 =>
                /\ current_input' = AfterProcess
                /\ pc' = "read"]_vars

\* C17: stop_audio_and_wait never waits for a clip to play to its end: while
\* the foreground waits in the join with the signal raised, the playing thread
\* can terminate at once, whatever is left of the clip.
C17_StopIsPrompt ==
    (Interactive /\ pc = "join" /\ stop_audio /\ audio_thread # 0) =>
        (threads[audio_thread].st = "playing" => ENABLED PlayOnceEnd(audio_thread))

\* C18: in the line-buffered session at most one playback thread is live in
\* every reachable state, also after a replay request 'r'.
C18_NormalAtMostOneThread ==
    Normal => Cardinality(LiveThreads) <= 1

\* C19: in the letter-streaming session a clip leaves the pool in the step
\* that selects it, so current_file is never a member of the pool; the pool
\* and current_file change by a selection only and the pool never regains a
\* clip, so no clip is selected twice; and the play loop ends only with the
\* pool empty, every clip of the initial pool having been selected.
C19_SelectedOnce ==
    [][(Interactive /\ pc \notin {"main", "error"}) =>
        /\ (pc = "loop" /\ unguessed_files # {}) =>
                /\ pc' = "stop"
                /\ current_file' \in unguessed_files
                /\ unguessed_files' = unguessed_files \ {current_file'}
        /\ (current_file' # current_file \/ unguessed_files' # unguessed_files) =>
                pc = "loop" /\ unguessed_files # {}
        /\ unguessed_files \subseteq initial_pool
        /\ current_file \notin unguessed_files
        /\ current_file' \notin unguessed_files'
        /\ (current_file' # "None") => current_file' \in initial_pool
        /\ pc' \in {"gameover", "ended"} => unguessed_files' = {}]_vars

\* a session of three clips has run to its end
C19_Witness ==
    /\ Interactive
    /\ pc = "ended"
    /\ Cardinality(initial_pool) = 3
    /\ unguessed_files = {}
    /\ current_file \in initial_pool

\* C20: whenever the letter-streaming session waits for the next key, the
\* buffer is empty or a lower-cased prefix shared by at least two titles: a
\* buffer with no or exactly one matching title is cleared by the event that
\* produced it.
C20_BufferAtRead ==
    (Interactive /\ pc = "read") =>
        \/ current_input = <<>>
        \/ /\ Lower(current_input) = current_input
           /\ Cardinality(Candidates(current_input)) >= 2

\* the upper-case key "B" has left the shared prefix "b" in the buffer
C20_Witness ==
    /\ Interactive
    /\ pc = "read"
    /\ key = "B"
    /\ current_input = <<"b">>
    /\ Cardinality(Candidates(current_input)) = 2

\* C21: in the letter-streaming session the clip a playing thread has loaded
\* is the session's current_file, although the thread reads the field after
\* it is started: current_file does not change while a playback thread is
\* live, whatever the interleaving of the foreground and the thread.
C21_ClipIsCurrent ==
    [][Interactive =>
        /\ LiveThreads # {} => current_file' = current_file
        /\ \A t \in ThreadIds :
              /\ threads[t].st = "playing" => threads[t].clip = current_file
              /\ threads'[t].st = "playing" => threads'[t].clip = current_file']_vars

\* the thread of the second round has loaded the second round's clip
C21_Witness ==
    /\ Interactive
    /\ correct_answers = 1
    /\ audio_thread # 0
    /\ threads[audio_thread].st = "playing"
    /\ threads[audio_thread].sounding
    /\ threads[audio_thread].clip = current_file
    /\ current_file \notin unguessed_files
    /\ Cardinality(initial_pool) >= 2

=============================================================================
